---- MODULE Spec2Model ----
(***************************************************************************)
(* Model of main.py: the vantage6 test client (class Client) and the       *)
(* function run that drives it: authenticate, submit a task, poll until    *)
(* the task is complete, fetch and decode the results.                     *)
(*                                                                         *)
(* Every HTTP exchange is blocking (requests.get / requests.post), so one  *)
(* exchange - the request sent and the response received - is one step.    *)
(* The server is the environment: each response is chosen from the set of  *)
(* responses the endpoint can give, including transport failures, bodies   *)
(* that are not JSON and JSON objects that lack the expected keys.         *)
(***************************************************************************)
EXTENDS Integers, Sequences, FiniteSets, TLC

VARIABLES
    host,             \* Client.host
    api_path,         \* Client.api_path
    collaboration_id, \* Client.collaboration_id
    username,         \* Client.username
    password,         \* Client.password
    access_token,     \* Client.access_token
    refresh_token,    \* Client.refresh_token
    pc,               \* position of the caller / of the method being executed
    task_id,          \* argument of the wait_for_results call in progress
    returned,         \* value returned by the last completed call
    exc,              \* exception raised by the last call, NoExc if none
    calls,            \* history: number of Client methods called so far
    completed,        \* server side: ids of the tasks whose flag is true
    trace             \* history: every request (with its response) and sleep

client == <<host, api_path, collaboration_id, username, password,
            access_token, refresh_token>>
vars == <<host, api_path, collaboration_id, username, password,
          access_token, refresh_token, pc, task_id, returned, exc,
          calls, completed, trace>>

-----------------------------------------------------------------------------
(* Bounds of the model *)

\* number of status polls recorded in the trace
MaxPolls == 3
\* number of entries of a results response
MaxResults == 2
\* number of method calls a caller of the Client class makes
MaxCalls == 3

\* room for every event the bounded specifications can record
MaxTrace == 2 * MaxPolls + MaxCalls + 2

-----------------------------------------------------------------------------
(* Values *)

None == "<None>"
NoExc == "<no exception>"
NoTask == -1

Hosts == {"http://x", "http://y"}
ApiPaths == {"/api", "/v1"}
Usernames == {"alice"}
Passwords == {"secret"}
CollaborationIds == {1}
AccessTokens == {"a1", "a2"}
RefreshTokens == {"r1", "r2"}
TaskIds == {5, 7}
Statuses == {200, 401}

\* str(x) of a token as the f-strings of get and post format it
Str(v) == IF v = None THEN "None" ELSE v

\* result strings a server may send, and json.loads of each
JsonStrings == {"1", " 1", "2", "-3", "{bad"}
ValidJson(s) == s \in {"1", " 1", "2", "-3"}
json_loads(s) ==
    CASE s = "1"  -> 1
      [] s = " 1" -> 1
      [] s = "2"  -> 2
      [] s = "-3" -> -3

-----------------------------------------------------------------------------
(* Responses.  kind "neterr": the transport raised, there is no response;   *)
(* "notjson": a response whose body .json() cannot decode; "json": a body   *)
(* that decodes to the object in field json.                                *)

NoJson == [msg |-> "none"]
ErrorJson == [msg |-> "error"]

Response(k, s, j) == [kind |-> k, status |-> s, json |-> j]

Failures == {Response("neterr", 0, NoJson)} \cup
            {Response("notjson", s, NoJson) : s \in Statuses}

TokenBodies ==
    {ErrorJson} \cup
    {[access_token |-> a] : a \in AccessTokens} \cup
    {[refresh_token |-> r] : r \in RefreshTokens} \cup
    {[access_token |-> a, refresh_token |-> r] :
        a \in AccessTokens, r \in RefreshTokens}

TokenResponses ==
    Failures \cup {Response("json", s, j) : s \in Statuses, j \in TokenBodies}

HasKey(j, k) == k \in DOMAIN j

\* requests.<verb>(...).json() raises for these responses
JsonRaises(r) == r.kind # "json"

ExcOf(r) == IF r.kind = "neterr" THEN "ConnectionError" ELSE "JSONDecodeError"

-----------------------------------------------------------------------------
(* Requests.  Field site names the statement that sent the request:        *)
(* "authenticate" (line 32), "get" / "post" (a direct call of the helper), *)
(* "create_task" (line 37), "poll" (line 43), "fetch" (line 53).           *)

NoBody == [absent |-> TRUE]
NoHeaders == {}

Request(site, m, u, h, b, r) ==
    [op |-> "request", site |-> site, method |-> m, url |-> u,
     headers |-> h, json |-> b, resp |-> r]

SleepEvent(s) == [op |-> "sleep", secs |-> s]

Log(e) == IF Len(trace) < MaxTrace THEN Append(trace, e) ELSE trace

\* a base URL that leaves the API path out
baseURLWithoutPath == host

\* Client._baseURL
baseURL == host \o api_path

\* headers that carry the other token
AuthHeadersOfRefreshToken ==
    {<<"Authorization", "Bearer " \o Str(refresh_token)>>}

\* the headers built by Client.get and Client.post
AuthHeaders == {<<"Authorization", "Bearer " \o Str(access_token)>>}

credentials == [username |-> username, password |-> password]

TokenURL == host \o api_path \o "/token/user"

\* the requests Client.get and Client.post send
GetRequest(site, url, r) ==
    Request(site, "GET", baseURL \o url, AuthHeaders, NoBody, r)

PostRequest(site, url, task, r) ==
    Request(site, "POST", baseURL \o url, AuthHeaders, task, r)

-----------------------------------------------------------------------------
(* Client.authenticate.  The two assignments are separate statements: a    *)
(* body with access_token but without refresh_token stores the first and   *)
(* raises KeyError on the second.                                          *)

\* the value line 33 assigns to self.access_token
AccessOf(r) == r.json.access_token

authenticate(r) ==
    /\ trace' = Log(Request("authenticate", "POST", TokenURL, NoHeaders,
                            credentials, r))
    /\ IF JsonRaises(r)
       THEN /\ UNCHANGED <<access_token, refresh_token>>
            /\ exc' = ExcOf(r)
       ELSE IF ~HasKey(r.json, "access_token")
       THEN /\ UNCHANGED <<access_token, refresh_token>>
            /\ exc' = "KeyError"
       ELSE IF ~HasKey(r.json, "refresh_token")
       THEN /\ access_token' = AccessOf(r)
            /\ UNCHANGED refresh_token
            /\ exc' = "KeyError"
       ELSE /\ access_token' = AccessOf(r)
            /\ refresh_token' = r.json.refresh_token
            /\ exc' = NoExc
    /\ returned' = <<>>
    /\ calls' = calls + 1
    /\ UNCHANGED <<host, api_path, collaboration_id, username, password,
                   task_id, completed>>

-----------------------------------------------------------------------------
(* Client.get, Client.post and Client.create_task called by a caller: the  *)
(* decoded body is the value returned.                                     *)

get(url, r) ==
    /\ trace' = Log(GetRequest("get", url, r))
    /\ IF JsonRaises(r)
       THEN exc' = ExcOf(r) /\ returned' = <<>>
       ELSE exc' = NoExc /\ returned' = r.json
    /\ calls' = calls + 1
    /\ UNCHANGED <<client, task_id, completed>>

\* a post that forgets the session when the request fails
postDroppingToken(site, url, task, r) ==
    /\ trace' = Log(PostRequest(site, url, task, r))
    /\ IF JsonRaises(r)
       THEN /\ exc' = ExcOf(r) /\ returned' = <<>>
            /\ access_token' = None
            /\ UNCHANGED <<host, api_path, collaboration_id, username,
                           password, refresh_token>>
       ELSE exc' = NoExc /\ returned' = r.json /\ UNCHANGED client
    /\ calls' = calls + 1
    /\ UNCHANGED <<task_id, completed>>

post(site, url, task, r) ==
    /\ trace' = Log(PostRequest(site, url, task, r))
    /\ IF JsonRaises(r)
       THEN exc' = ExcOf(r) /\ returned' = <<>>
       ELSE exc' = NoExc /\ returned' = r.json
    /\ calls' = calls + 1
    /\ UNCHANGED <<client, task_id, completed>>

create_task(task, r) == post("create_task", "/task", task, r)

-----------------------------------------------------------------------------
(* Client.wait_for_results *)

PollInterval == 5

TaskPath(id) == "/task/" \o ToString(id)

ResultsPath(id) == TaskPath(id) \o "?include=results"

\* the loop left on the opposite test
LoopExitNegated(result) == ~result.complete

\* a loop that is never left
LoopExitNever(result) == FALSE

\* the test that leaves the polling loop
LoopExit(result) == result.complete

\* a comprehension that walks the entries backwards
DecodeReversed(results) ==
    [i \in 1..Len(results) |->
        json_loads(results[Len(results) + 1 - i].result)]

\* the list comprehension of the return statement
Decode(results) == [i \in 1..Len(results) |-> json_loads(results[i].result)]

\* entries of a results response that make the comprehension raise
BadEntries(results) ==
    {i \in 1..Len(results) :
        \/ ~HasKey(results[i], "result")
        \/ ~ValidJson(results[i].result)}

FirstBad(results) ==
    CHOOSE i \in BadEntries(results) : \A j \in BadEntries(results) : i <= j

\* the call: path is built, the loop is entered
wait_for_results(id) ==
    /\ task_id' = id
    /\ pc' = "poll"
    /\ exc' = NoExc
    /\ returned' = <<>>
    /\ calls' = calls + 1
    /\ UNCHANGED <<client, completed, trace>>

\* a loop that tries again after a request that failed
pollRetrying(r) ==
    /\ IF JsonRaises(r)
       THEN exc' = NoExc /\ pc' = "sleep"
       ELSE IF ~HasKey(r.json, "complete")
       THEN exc' = NoExc /\ pc' = "sleep"
       ELSE IF r.json.complete
       THEN exc' = NoExc /\ pc' = "fetch"
       ELSE exc' = NoExc /\ pc' = "sleep"
    /\ UNCHANGED <<client, task_id, returned, calls, completed>>

\* one iteration of the loop up to the test of the flag
poll(r) ==
    /\ IF JsonRaises(r)
       THEN exc' = ExcOf(r) /\ pc' = "raised"
       ELSE IF ~HasKey(r.json, "complete")
       THEN exc' = "KeyError" /\ pc' = "raised"
       ELSE IF LoopExit(r.json)
       THEN exc' = NoExc /\ pc' = "fetch"
       ELSE exc' = NoExc /\ pc' = "sleep"
    /\ UNCHANGED <<client, task_id, returned, calls, completed>>

\* a loop that gives up waiting after its second poll
sleepUntilTimeout ==
    /\ trace' = Log(SleepEvent(PollInterval))
    /\ pc' = IF Cardinality({i \in 1..Len(trace) : trace[i].op = "sleep"}) >= 1
             THEN "fetch" ELSE "poll"
    /\ UNCHANGED <<client, task_id, returned, exc, calls, completed>>

\* a loop that waits longer after every poll
sleepBackingOff ==
    /\ trace' = Log(SleepEvent(PollInterval *
                        (1 + Cardinality({i \in 1..Len(trace) :
                                             trace[i].op = "sleep"}))))
    /\ pc' = "poll"
    /\ UNCHANGED <<client, task_id, returned, exc, calls, completed>>

\* the rest of the iteration: print, flush, sleep, and back to the get
sleep ==
    /\ trace' = Log(SleepEvent(PollInterval))
    /\ pc' = "poll"
    /\ UNCHANGED <<client, task_id, returned, exc, calls, completed>>

\* after the loop: the results request and the decoding of its entries
fetch(r) ==
    /\ trace' = Log(GetRequest("fetch", ResultsPath(task_id), r))
    /\ IF JsonRaises(r)
       THEN exc' = ExcOf(r) /\ pc' = "raised" /\ returned' = <<>>
       ELSE IF ~HasKey(r.json, "results")
       THEN exc' = "KeyError" /\ pc' = "raised" /\ returned' = <<>>
       ELSE IF BadEntries(r.json.results) # {}
       THEN /\ exc' = IF HasKey(r.json.results[FirstBad(r.json.results)],
                                "result")
                      THEN "JSONDecodeError" ELSE "KeyError"
            /\ pc' = "raised"
            /\ returned' = <<>>
       ELSE /\ exc' = NoExc
            /\ pc' = "returned"
            /\ returned' = Decode(r.json.results)
    /\ UNCHANGED <<client, task_id, calls, completed>>

-----------------------------------------------------------------------------
(* The server *)

TaskResponses ==
    Failures \cup {Response("json", s, ErrorJson) : s \in Statuses}
             \cup {Response("json", 200, [id |-> i]) : i \in TaskIds}

\* the status of task id as the server holds it
PollResponses(id) ==
    Failures \cup {Response("json", s, ErrorJson) : s \in Statuses}
             \cup {Response("json", 200,
                            [id |-> id, complete |-> id \in completed])}

Entries == {[result |-> s] : s \in JsonStrings} \cup {ErrorJson}

RECURSIVE SeqsUpTo(_, _)
SeqsUpTo(S, n) ==
    IF n = 0 THEN {<<>>}
    ELSE LET shorter == SeqsUpTo(S, n - 1)
         IN shorter \cup {Append(q, e) : q \in shorter, e \in S}

ResultResponses ==
    Failures \cup {Response("json", s, ErrorJson) : s \in Statuses}
             \cup {Response("json", 200, [results |-> es]) :
                      es \in SeqsUpTo(Entries, MaxResults)}

\* the results responses of at most one entry, and the transport failure
ShortResultResponses ==
    {r \in ResultResponses :
        \/ r.kind = "neterr"
        \/ HasKey(r.json, "results") /\ Len(r.json.results) <= 1}

\* one of the tasks ids finishes on the server
Completes(ids) ==
    /\ \E id \in ids \ completed : completed' = completed \cup {id}
    /\ UNCHANGED <<client, pc, task_id, returned, exc, calls, trace>>

TaskCompletes == Completes(TaskIds)

-----------------------------------------------------------------------------
(* Steps of wait_for_results, whoever called it *)

IsRequest(e, site) == e.op = "request" /\ e.site = site

Sites(site) == {i \in 1..Len(trace) : IsRequest(trace[i], site)}

NPolls == Cardinality(Sites("poll"))

PollFrom(responses) ==
    /\ pc = "poll"
    /\ NPolls < MaxPolls
    /\ \E r \in responses :
          /\ trace' = Log(GetRequest("poll", TaskPath(task_id), r))
          /\ poll(r)

FetchFrom(responses) == pc = "fetch" /\ \E r \in responses : fetch(r)

StatusPoll == PollFrom(PollResponses(task_id))

Sleep == pc = "sleep" /\ sleep

FetchResults == FetchFrom(ResultResponses)

-----------------------------------------------------------------------------
(* run *)

\* the task run builds
RunTask ==
    [name |-> "RPC call from Python",
     image |-> "docker-registry.distributedlearning.ai/dl_test",
     collaboration_id |-> collaboration_id,
     input |-> [role |-> "master", host |-> host, api_path |-> api_path,
                collaboration_id |-> collaboration_id],
     database |-> "",
     description |-> ""]

\* run going on although authenticate raised
RunAfterAuthenticateSwallowed(e) == "create_task"

\* where run continues after client.authenticate(): an exception ends run
RunAfterAuthenticate(e) == IF e = NoExc THEN "create_task" ELSE "raised"

\* run submitting the task again when the submission raised
RunAfterCreateTaskRetry(e) ==
    IF e = NoExc THEN "wait_for_results" ELSE "create_task"

\* where run continues after client.create_task(task)
RunAfterCreateTask(e) == IF e = NoExc THEN "wait_for_results" ELSE "raised"

\* run waiting for the collaboration instead of the task
RunTaskIdOfCollaboration(response) == collaboration_id

\* the argument run hands to wait_for_results
RunTaskId(response) == response.id

\* client = Client(host, collaboration_id, username, password, api_path)
Init ==
    /\ host \in Hosts
    /\ api_path \in ApiPaths
    /\ collaboration_id \in CollaborationIds
    /\ username \in Usernames
    /\ password \in Passwords
    /\ access_token = None
    /\ refresh_token = None
    /\ pc = "authenticate"
    /\ task_id = NoTask
    /\ returned = <<>>
    /\ exc = NoExc
    /\ calls = 0
    /\ completed = {}
    /\ trace = <<>>

\* client.authenticate()
RunAuthenticate ==
    /\ pc = "authenticate"
    /\ \E r \in TokenResponses :
          /\ authenticate(r)
          /\ pc' = RunAfterAuthenticate(exc')

\* response = client.create_task(task)
RunCreateTask ==
    /\ pc = "create_task"
    /\ \E r \in TaskResponses :
          /\ create_task(RunTask, r)
          /\ pc' = RunAfterCreateTask(exc')

\* client.wait_for_results(response['id'])
RunWaitForResults ==
    /\ pc = "wait_for_results"
    /\ IF HasKey(returned, "id")
       THEN wait_for_results(RunTaskId(returned))
       ELSE /\ exc' = "KeyError"
            /\ pc' = "raised"
            /\ UNCHANGED <<client, task_id, returned, calls, completed,
                           trace>>

Next ==
    \/ RunAuthenticate
    \/ RunCreateTask
    \/ RunWaitForResults
    \/ StatusPoll
    \/ Sleep
    \/ FetchResults
    \/ TaskCompletes

Spec == Init /\ [][Next]_vars

-----------------------------------------------------------------------------
(* run under the scheduling of a sequential program: the client takes its  *)
(* next step whenever it has one; the server need never finish the task.   *)
(* Polls beyond MaxPolls are taken but no longer recorded in the trace;    *)
(* the results responses are those of at most one entry.                   *)

StatusPollOn ==
    /\ pc = "poll"
    /\ NPolls >= MaxPolls
    /\ \E r \in PollResponses(task_id) : trace' = trace /\ poll(r)

LiveFetchResults == FetchFrom(ShortResultResponses)

ClientStep ==
    \/ RunAuthenticate
    \/ RunCreateTask
    \/ RunWaitForResults
    \/ StatusPoll
    \/ StatusPollOn
    \/ Sleep
    \/ LiveFetchResults

LiveNext ==
    \/ RunAuthenticate
    \/ RunCreateTask
    \/ RunWaitForResults
    \/ StatusPoll
    \/ StatusPollOn
    \/ Sleep
    \/ LiveFetchResults
    \/ TaskCompletes

LiveSpec == Init /\ [][LiveNext]_vars /\ WF_vars(ClientStep)

-----------------------------------------------------------------------------
(* A caller that uses the Client class directly: any method, in any order, *)
(* also after a call raised (the caller caught the exception).  The server *)
(* answers from a part of the responses of each endpoint.                  *)

ApiUrls == {"/task/5"}
ApiTaskIds == {5}

ApiTokenResponses ==
    {r \in TokenResponses :
        /\ r.kind # "notjson"
        /\ r.status # 401
        /\ r.json \notin {[access_token |-> "a1", refresh_token |-> "r2"],
                          [access_token |-> "a2", refresh_token |-> "r1"],
                          [refresh_token |-> "r1"],
                          [refresh_token |-> "r2"]}}

ApiResponses == {r \in TaskResponses : r.kind = "neterr" \/ HasKey(r.json, "id")}

ApiPollResponses(id) ==
    {r \in PollResponses(id) : r.kind = "neterr" \/ HasKey(r.json, "complete")}

ApiInit ==
    /\ host = "http://x"
    /\ api_path = "/api"
    /\ collaboration_id \in CollaborationIds
    /\ username \in Usernames
    /\ password \in Passwords
    /\ access_token = None
    /\ refresh_token = None
    /\ pc = "idle"
    /\ task_id = NoTask
    /\ returned = <<>>
    /\ exc = NoExc
    /\ calls = 0
    /\ completed = {}
    /\ trace = <<>>

Idle == pc \in {"idle", "returned", "raised"} /\ calls < MaxCalls

AfterCall(e) == IF e = NoExc THEN "returned" ELSE "raised"

CallAuthenticate ==
    /\ Idle
    /\ \E r \in ApiTokenResponses : authenticate(r) /\ pc' = AfterCall(exc')

CallGet ==
    /\ Idle
    /\ \E u \in ApiUrls, r \in ApiResponses :
          get(u, r) /\ pc' = AfterCall(exc')

CallPost ==
    /\ Idle
    /\ \E u \in ApiUrls, r \in ApiResponses :
          post("post", u, RunTask, r) /\ pc' = AfterCall(exc')

CallCreateTask ==
    /\ Idle
    /\ \E r \in ApiResponses :
          create_task(RunTask, r) /\ pc' = AfterCall(exc')

CallWaitForResults == Idle /\ \E id \in ApiTaskIds : wait_for_results(id)

CallStatusPoll == PollFrom(ApiPollResponses(task_id))

CallFetchResults == FetchFrom(ShortResultResponses)

CallTaskCompletes == Completes(ApiTaskIds)

ApiNext ==
    \/ CallAuthenticate
    \/ CallGet
    \/ CallPost
    \/ CallCreateTask
    \/ CallWaitForResults
    \/ CallStatusPoll
    \/ Sleep
    \/ CallFetchResults
    \/ CallTaskCompletes

ApiSpec == ApiInit /\ [][ApiNext]_vars

-----------------------------------------------------------------------------
(* Reading the trace *)

\* authenticate returned normally on response r
AuthOk(r) ==
    /\ r.kind = "json"
    /\ HasKey(r.json, "access_token")
    /\ HasKey(r.json, "refresh_token")

\* the flag the i-th event, a status poll, came back with
Flag(i) ==
    IF trace[i].resp.kind = "json" /\ HasKey(trace[i].resp.json, "complete")
    THEN IF trace[i].resp.json.complete THEN "true" ELSE "false"
    ELSE "failed"

Count(site) == Cardinality(Sites(site))

Bearer(t) == {<<"Authorization", "Bearer " \o t>>}

-----------------------------------------------------------------------------

(* C1: in wait_for_results the results fetch is sent only after a status   *)
(* poll came back with complete = true, it is sent once, no status poll    *)
(* follows the first poll that came back true, and every poll before that  *)
(* one came back with a false flag.                                        *)
C1_FetchOnlyAfterComplete ==
    /\ \A f \in Sites("fetch") :
          \E p \in Sites("poll") : p < f /\ Flag(p) = "true"
    /\ Count("fetch") <= 1
    /\ (\E p \in Sites("poll") : Flag(p) = "true")
          => Count("fetch") = (IF pc = "fetch" THEN 0 ELSE 1)
    /\ \A p, q \in Sites("poll") : p < q => Flag(p) = "false"

C1_Witness ==
    /\ pc = "returned"
    /\ Count("poll") >= 2
    /\ Count("fetch") = 1

-----------------------------------------------------------------------------

(* C2: in run no request of get, post, create_task or wait_for_results is  *)
(* sent before authenticate has succeeded: whenever such a request has     *)
(* been sent, an earlier authenticate request was answered with both       *)
(* tokens, the client's access_token is no longer None, and the request    *)
(* did not carry "Bearer None".                                            *)
C2_NoRequestBeforeAuthenticate ==
    \A i \in 1..Len(trace) :
        (trace[i].op = "request" /\ trace[i].site # "authenticate") =>
            /\ \E j \in 1..(i - 1) :
                  /\ IsRequest(trace[j], "authenticate")
                  /\ AuthOk(trace[j].resp)
            /\ access_token # None
            /\ trace[i].headers # Bearer("None")

C2_Witness ==
    /\ Count("create_task") = 1
    /\ Count("poll") >= 1
    /\ Count("fetch") = 1

-----------------------------------------------------------------------------
\* the latest authenticate before event i that returned normally, 0 if none
LastAuthOk(i) ==
    LET oks == {j \in 1..(i - 1) :
                   IsRequest(trace[j], "authenticate") /\ AuthOk(trace[j].resp)}
    IN IF oks = {} THEN 0
       ELSE CHOOSE j \in oks : \A k \in oks : k <= j

(* C3: for a caller making any sequence of authenticate, get, post,        *)
(* create_task and wait_for_results calls, every request sent by get or    *)
(* post that follows a successful authenticate carries                     *)
(* Authorization: Bearer t, t being the access_token of the response of    *)
(* the most recent authenticate call that returned normally.               *)
C3_BearerOfLastSuccessfulAuthenticate ==
    \A i \in 1..Len(trace) :
        (trace[i].op = "request" /\ trace[i].site # "authenticate"
            /\ LastAuthOk(i) # 0) =>
            trace[i].headers =
                Bearer(trace[LastAuthOk(i)].resp.json.access_token)

-----------------------------------------------------------------------------
\* a token response that is not 2xx or lacks a token
AuthRejected(r) ==
    \/ r.status \notin 200..299
    \/ ~AuthOk(r)

(* C9: authenticate sends one request and never a second one; when the     *)
(* response is not 2xx or is malformed (no response, a body that is not    *)
(* JSON, a token missing) the call ends in an exception, neither token is  *)
(* stored and run sends nothing further.                                   *)
C9_FailedAuthenticateStoresNothing ==
    /\ Count("authenticate") <= 1
    /\ \A i \in Sites("authenticate") :
          AuthRejected(trace[i].resp) =>
              /\ pc = "raised"
              /\ access_token = None
              /\ refresh_token = None
              /\ Len(trace) = 1

-----------------------------------------------------------------------------
\* the two states of wait_for_results
Pending == pc \in {"poll", "sleep"}
Complete == pc \in {"fetch", "returned"}

(* C4: when the server never sets the completion flag of the polled task   *)
(* and no request fails, wait_for_results never ends: it polls and sleeps  *)
(* again and again, never sends the results fetch and never returns.       *)
C4_PollsForever ==
    ([](task_id \notin completed) /\ [](pc # "raised"))
        => ([]<>(pc = "poll") /\ []<>(pc = "sleep") /\ [](~Complete))

\* the loop is still running after more polls than the trace records
C4_Witness ==
    /\ pc = "sleep"
    /\ NPolls = MaxPolls
    /\ Len(trace) = MaxTrace
    /\ task_id \notin completed

-----------------------------------------------------------------------------

(* C5: when the server has set the completion flag of the polled task and  *)
(* no request fails, wait_for_results leaves Pending, sends the results    *)
(* fetch and returns.  Pending is left for Complete only, by a poll taken  *)
(* when the flag is set; a poll taken when the flag is set does not go on  *)
(* to sleep; Complete never goes back to Pending.                          *)
C5_ReturnsOnceComplete ==
    /\ [](pc # "raised") =>
          ((Pending /\ task_id \in completed) ~> (pc = "returned"))
    /\ [][(Pending /\ ~Pending' /\ pc' # "raised") =>
              (pc = "poll" /\ pc' = "fetch" /\ task_id \in completed)]_vars
    /\ [][(pc = "poll" /\ pc' = "sleep") => task_id \notin completed]_vars
    /\ [][Complete => ~Pending']_vars

C5_Witness ==
    /\ pc = "returned"
    /\ Count("poll") >= 2
    /\ \E p \in Sites("poll") : Flag(p) = "false"
    /\ task_id \in completed

-----------------------------------------------------------------------------
\* a results response every entry of which json.loads accepts
WellFormedResults(r) ==
    /\ r.kind = "json"
    /\ HasKey(r.json, "results")
    /\ \A i \in 1..Len(r.json.results) :
          /\ HasKey(r.json.results[i], "result")
          /\ ValidJson(r.json.results[i].result)

(* C6: a results response with N entries whose result strings are JSON    *)
(* makes wait_for_results return N values, the i-th being json.loads of    *)
(* the i-th entry's result string: nothing dropped, duplicated or          *)
(* reordered, each value depending on its own entry only; and nothing is   *)
(* returned from any other response.                                       *)
C6_ResultsDecodedInOrder ==
    /\ \A f \in Sites("fetch") :
          WellFormedResults(trace[f].resp) =>
              /\ pc = "returned"
              /\ Len(returned) = Len(trace[f].resp.json.results)
              /\ \A i \in 1..Len(returned) :
                    returned[i] =
                        json_loads(trace[f].resp.json.results[i].result)
    /\ pc = "returned" =>
          \E f \in Sites("fetch") : WellFormedResults(trace[f].resp)

C6_Witness ==
    /\ pc = "returned"
    /\ Len(returned) = MaxResults
    /\ returned[1] # returned[Len(returned)]

-----------------------------------------------------------------------------

(* C7: every request targets host + api_path + path: "/token/user" for     *)
(* authenticate, "/task" for create_task, "/task/<id>" for the status      *)
(* polls that wait_for_results sends through get, and the same followed    *)
(* by "?include=results" for the results fetch; with host "http://x" and   *)
(* api_path "/api" the get of "/task/5" targets "http://x/api/task/5".     *)
C7_RequestTargets ==
    \A i \in 1..Len(trace) :
        trace[i].op = "request" =>
            /\ trace[i].site = "authenticate" =>
                  trace[i].url = host \o api_path \o "/token/user"
            /\ trace[i].site = "create_task" =>
                  trace[i].url = host \o api_path \o "/task"
            /\ trace[i].site = "poll" =>
                  trace[i].url =
                      host \o api_path \o "/task/" \o ToString(task_id)
            /\ trace[i].site = "fetch" =>
                  trace[i].url =
                      host \o api_path \o "/task/" \o ToString(task_id)
                           \o "?include=results"
            /\ (trace[i].site = "poll" /\ host = "http://x"
                   /\ api_path = "/api" /\ task_id = 5) =>
                  trace[i].url = "http://x/api/task/5"

C7_Witness ==
    /\ host = "http://x"
    /\ api_path = "/api"
    /\ task_id = 5
    /\ Count("authenticate") = 1
    /\ Count("create_task") = 1
    /\ Count("poll") >= 1
    /\ Count("fetch") = 1

-----------------------------------------------------------------------------

(* C8: the requests of run come in the order: one authenticate request,    *)
(* one task submission, one or more status polls (a sleep between two),    *)
(* one results fetch, return.  A phase starts only when the one before it  *)
(* has completed, and every poll and the fetch name the id of the          *)
(* submission response.                                                    *)
C8_RunOrder ==
    LET n == Len(trace)
    IN /\ n >= 1 => IsRequest(trace[1], "authenticate")
       /\ n >= 2 => /\ IsRequest(trace[2], "create_task")
                    /\ AuthOk(trace[1].resp)
       /\ n >= 3 => /\ trace[2].resp.kind = "json"
                    /\ HasKey(trace[2].resp.json, "id")
                    /\ IsRequest(trace[3], "poll")
       /\ \A i \in 3..n :
             \/ /\ IsRequest(trace[i], "poll")
                /\ trace[i].url =
                      baseURL \o "/task/" \o ToString(trace[2].resp.json.id)
                /\ i > 3 => trace[i - 1].op = "sleep"
             \/ /\ trace[i].op = "sleep"
                /\ IsRequest(trace[i - 1], "poll")
                /\ Flag(i - 1) = "false"
             \/ /\ IsRequest(trace[i], "fetch")
                /\ trace[i].url =
                      baseURL \o "/task/" \o ToString(trace[2].resp.json.id)
                              \o "?include=results"
                /\ IsRequest(trace[i - 1], "poll")
                /\ Flag(i - 1) = "true"
                /\ i = n
       /\ pc = "returned" =>
             /\ Count("authenticate") = 1
             /\ Count("create_task") = 1
             /\ Count("poll") >= 1
             /\ Count("fetch") = 1
             /\ IsRequest(trace[n], "fetch")

C8_Witness ==
    /\ pc = "returned"
    /\ Count("poll") = MaxPolls
    /\ Len(trace) = 2 * MaxPolls + 2

-----------------------------------------------------------------------------

(* C10: one task is in flight per client: run submits its task once, and   *)
(* no submission is sent while an earlier submission of the client has not *)
(* been reported complete by a status poll.                                *)
C10_OneTaskInFlight ==
    /\ \A i, j \in Sites("create_task") :
          i < j => \E p \in Sites("poll") :
                      i < p /\ p < j /\ Flag(p) = "true"
    /\ Count("create_task") <= 1
    /\ pc \in {"wait_for_results", "poll", "sleep", "fetch", "returned"}
          => Count("create_task") = 1

C10_Witness ==
    /\ pc = "sleep"
    /\ Count("create_task") = 1
    /\ task_id \notin completed
-----------------------------------------------------------------------------
\* the fields of the client that are not tokens
settings == <<host, api_path, collaboration_id, username, password>>

\* the step is the call of authenticate: it appends the token request
AuthenticateStep ==
    /\ Len(trace') = Len(trace) + 1
    /\ IsRequest(trace'[Len(trace')], "authenticate")

(* C11: authenticate is the only operation that changes the client: the    *)
(* steps of create_task and wait_for_results, and the get and post they    *)
(* make, leave every field of the client as it was, whether the request    *)
(* succeeds or fails; host, api_path, username, password and               *)
(* collaboration_id never change; in a run the tokens are written by the   *)
(* one authenticate call, before any request reads them, and only read     *)
(* afterwards.                                                             *)
C11_OnlyAuthenticateWrites ==
    [][/\ settings' = settings
       /\ (client' # client) =>
             /\ AuthenticateStep
             /\ Count("authenticate") = 0
             /\ access_token = None
             /\ refresh_token = None
       /\ (\E i \in 1..Len(trace) : trace[i].op = "request") =>
             /\ access_token' = access_token
             /\ refresh_token' = refresh_token]_vars

C11_Witness ==
    /\ pc = "raised"
    /\ exc = "JSONDecodeError"
    /\ Count("create_task") = 1
    /\ Count("poll") >= 2
    /\ Count("fetch") = 1
    /\ access_token \in AccessTokens
    /\ refresh_token \in RefreshTokens
-----------------------------------------------------------------------------
\* the request of event e failed: no response, a body that is not JSON, or
\* a status without the completion flag
RequestFailed(e) ==
    \/ JsonRaises(e.resp)
    \/ e.site = "poll" /\ ~HasKey(e.resp.json, "complete")

\* the exception the failure of event e surfaces as
FailureOf(e) ==
    IF e.resp.kind = "neterr" THEN "ConnectionError"
    ELSE IF e.resp.kind = "notjson" THEN "JSONDecodeError"
    ELSE "KeyError"

(* C12: a request of wait_for_results that fails (network failure, body    *)
(* that is not JSON, status without completion flag) ends the call at      *)
(* once with that failure: the request is not sent again, no status poll   *)
(* and no results fetch follows it, and no result sequence is returned.    *)
C12_FailurePropagates ==
    \A i \in Sites("poll") \cup Sites("fetch") :
        RequestFailed(trace[i]) =>
            /\ i = Len(trace)
            /\ pc = "raised"
            /\ exc = FailureOf(trace[i])
            /\ returned = <<>>

C12_Witness ==
    /\ pc = "raised"
    /\ Count("poll") >= 2
    /\ IsRequest(trace[Len(trace)], "poll")
    /\ RequestFailed(trace[Len(trace)])
    /\ exc = "KeyError"
-----------------------------------------------------------------------------
\* the sleeps of the trace
Sleeps == {i \in 1..Len(trace) : trace[i].op = "sleep"}

(* C13: in wait_for_results one sleep of 5 seconds lies between every two  *)
(* consecutive status polls and none between the poll answered             *)
(* complete = true and the results fetch: every sleep follows a poll       *)
(* answered false and is followed by the next poll, all sleeps are 5       *)
(* seconds long, a call that ended after k polls slept k - 1 times, and a  *)
(* task complete at the first poll is fetched without any sleep.           *)
C13_OneSleepBetweenPolls ==
    /\ \A i \in Sleeps :
          /\ trace[i].secs = 5
          /\ i > 1
          /\ IsRequest(trace[i - 1], "poll")
          /\ Flag(i - 1) = "false"
          /\ i < Len(trace) => IsRequest(trace[i + 1], "poll")
    /\ \A p, q \in Sites("poll") :
          p < q => Cardinality({i \in Sleeps : p < i /\ i < q})
                      = Cardinality({j \in Sites("poll") : p < j /\ j < q}) + 1
    /\ \A f \in Sites("fetch") : IsRequest(trace[f - 1], "poll")
    /\ (pc \in {"fetch", "returned", "raised"} /\ Count("poll") >= 1)
          => Cardinality(Sleeps) = Count("poll") - 1
    /\ (Count("poll") = 1 /\ Flag(CHOOSE p \in Sites("poll") : TRUE) = "true")
          => Sleeps = {}

C13_Witness ==
    /\ pc = "returned"
    /\ Count("poll") = MaxPolls
    /\ Cardinality(Sleeps) = MaxPolls - 1
    /\ \A i \in Sleeps : trace[i].secs = 5
-----------------------------------------------------------------------------
\* the strings a request body holds at its top level or in its input
BodyStrings(b) ==
    IF HasKey(b, "password") THEN {b.username, b.password}
    ELSE IF HasKey(b, "image")
    THEN {b.name, b.image, b.database, b.description, b.input.role,
          b.input.host, b.input.api_path}
    ELSE {}

(* C14: the refresh token is stored by a successful authenticate and used  *)
(* by nothing: no request of authenticate, get, post, create_task or       *)
(* wait_for_results holds a refresh token in a header or in its body, and  *)
(* no request is a token refresh: the token endpoint is addressed by       *)
(* authenticate only, with the username and the password.                  *)
C14_RefreshTokenNeverSent ==
    /\ LastAuthOk(Len(trace) + 1) # 0 =>
          refresh_token =
              trace[LastAuthOk(Len(trace) + 1)].resp.json.refresh_token
    /\ \A i \in 1..Len(trace) :
          trace[i].op = "request" =>
              /\ \A h \in trace[i].headers :
                    /\ h[2] \notin RefreshTokens
                    /\ h[2] \notin {"Bearer " \o r : r \in RefreshTokens}
              /\ ~HasKey(trace[i].json, "refresh_token")
              /\ BodyStrings(trace[i].json) \cap RefreshTokens = {}
              /\ trace[i].url = TokenURL <=> trace[i].site = "authenticate"
              /\ trace[i].site = "authenticate" =>
                    /\ trace[i].json = credentials
                    /\ trace[i].headers = {}

C14_Witness ==
    /\ Len(trace) = 3
    /\ IsRequest(trace[1], "authenticate")
    /\ AuthOk(trace[1].resp)
    /\ IsRequest(trace[2], "get")
    /\ IsRequest(trace[3], "authenticate")
    /\ refresh_token \in RefreshTokens
-----------------------------------------------------------------------------
(* C15: authenticate updates the tokens together: in every state both     *)
(* tokens are None or both are the tokens of one authenticate response,   *)
(* and an authenticate call that failed has left both as they were.       *)
C15_TokensUpdatedTogether ==
    /\ \/ access_token = None /\ refresh_token = None
       \/ \E i \in Sites("authenticate") :
             /\ AuthOk(trace[i].resp)
             /\ access_token = trace[i].resp.json.access_token
             /\ refresh_token = trace[i].resp.json.refresh_token
    /\ \A i \in Sites("authenticate") :
          (i = Len(trace) /\ ~AuthOk(trace[i].resp) /\ LastAuthOk(i) = 0) =>
              access_token = None /\ refresh_token = None
====
